---- MODULE Spec2Model ----
(***************************************************************************)
(* Job-discovery pipeline of app/services/discovery_service.py:            *)
(* generate_search_queries -> discover_career_pages (is_valid_career_url)  *)
(* -> per-URL process_url tasks (crawl_page + extract_jobs_from_content)   *)
(* under asyncio.Semaphore(5) -> merge, sort, truncate.                    *)
(*                                                                         *)
(* Strings the code only formats are TLA+ strings (\o is concatenation).   *)
(* URLs, which the code parses and searches for substrings, are sequences  *)
(* of one-character strings.  confidence_score is kept in tenths.          *)
(***************************************************************************)
EXTENDS Integers, Sequences, FiniteSets, TLC

VARIABLES
    pc,              \* phase of discover_jobs
    request,         \* the DiscoverJobsRequest
    queries,         \* discover_jobs.queries
    query_resp,      \* what the query synthesizer's model request came to
    qi,              \* discover_career_pages: index of the next query of the for loop
    discovered_urls, \* discover_career_pages.discovered_urls (a set)
    urls,            \* discover_jobs.urls
    semaphore,       \* value of asyncio.Semaphore(5)
    tpc,             \* per task of gather: where process_url(url) stands
    results,         \* per task: the list process_url returned
    model_output,    \* per task: the JSON list the extraction model returned
    sources_crawled, \* discover_jobs.sources_crawled
    errors,          \* discover_jobs.errors
    all_jobs,        \* discover_jobs.all_jobs
    ret,             \* the tuple discover_jobs returned
    fetch_calls,     \* number of client.get requests issued by crawl_page
    extract_calls,   \* number of model requests issued by extract_jobs_from_content
    filter_url,      \* argument of a stand-alone is_valid_career_url call
    filter_out,      \* its return value
    fetched,         \* per task: whether its client.get brought page text
    extraction,      \* a stand-alone extract_jobs_from_content call
    extract_raised,  \* per task: whether its extraction ended in a caught exception
    search,          \* discover_career_pages: what the latest loop iteration did
    key_manager,     \* the GroqAPIKeyManager object
    clock,           \* datetime.now(), in minutes
    key_call,        \* the latest call on the key manager and what it returned
    endpoint         \* discover_jobs_endpoint: its position, key and outcome

vars == <<pc, request, queries, query_resp, qi, discovered_urls, urls, semaphore, tpc,
          results, model_output, sources_crawled, errors, all_jobs, ret, fetch_calls, extract_calls,
          filter_url, filter_out, fetched, extraction, extract_raised, search, key_manager,
          clock, key_call, endpoint>>

(***************************************************************************)
(* Bounds of the model                                                     *)
(***************************************************************************)
\* request.max_results ranges over -MaxNegResults .. MaxReqResults
MaxNegResults == 1
MaxReqResults == 3
\* custom_search_terms has at most this many entries (query synthesizer runs)
MaxCustomTerms == 7
\* number of URLs handed to the crawl phase in the gate runs
MaxGateUrls == 6
\* longest requirements list the extraction model emits
MaxRequirements == 6
\* the key manager runs: number of configured keys, cooldown and clock in minutes
MaxKeys == 3
MaxCooldown == 2
MaxClock == 3

(***************************************************************************)
(* Program constants                                                       *)
(***************************************************************************)
MAX_RESULTS_LE == 20
QUERY_CAP == 10
SEMAPHORE_SLOTS == 5
MIN_CONTENT_LEN == 100
MAX_TEXT_LEN == 15000

Min(a, b) == IF a <= b THEN a ELSE b
Max(a, b) == IF a >= b THEN a ELSE b

\* Python's s[:n]: the first n elements, or all but the last -n when n < 0.
PySliceTo(s, n) ==
    IF n >= 0 THEN SubSeq(s, 1, Min(n, Len(s)))
    ELSE SubSeq(s, 1, Max(Len(s) + n, 0))

(***************************************************************************)
(* DiscoverJobsRequest: the only constraint pydantic enforces on           *)
(* max_results is le=20.                                                   *)
(***************************************************************************)
DiscoverJobsRequestValid(r) == r.max_results <= MAX_RESULTS_LE

(***************************************************************************)
(* generate_search_queries                                                 *)
(*                                                                         *)
(* resp is what the chat-completion request came to:                       *)
(*   kind "transport_error" : client.post raised                           *)
(*   kind "http_error"      : status_code != 200                           *)
(*   kind "bad_envelope"    : 200, but response.json()["choices"]... raised*)
(*   kind "bad_json"        : 200, json.loads(content) raised              *)
(*   kind "non_list"        : 200, content parsed to a non-list value      *)
(*   kind "list"            : 200, content parsed to the list resp.payload *)
(***************************************************************************)
\* the fallback with the custom terms in front of the templates
FallbackQueries_TermsFirst(role, skills, location, custom_terms) ==
    custom_terms
    \o << role \o " careers " \o location,
          role \o " jobs company hiring",
          "site:greenhouse.io " \o role,
          "site:lever.co " \o role >>
    \o (IF skills # <<>> THEN << skills[1] \o " developer jobs " \o location >> ELSE <<>>)

FallbackQueries(role, skills, location, custom_terms) ==
    << role \o " careers " \o location,
       role \o " jobs company hiring",
       "site:greenhouse.io " \o role,
       "site:lever.co " \o role >>
    \o (IF skills # <<>> THEN << skills[1] \o " developer jobs " \o location >> ELSE <<>>)
    \o custom_terms

generate_search_queries(role, skills, location, custom_terms, resp) ==
    IF resp.kind = "list"
    THEN PySliceTo(resp.payload \o custom_terms, QUERY_CAP)
    ELSE FallbackQueries(role, skills, location, custom_terms)

(***************************************************************************)
(* Characters and substring search                                         *)
(***************************************************************************)
UpperChars == <<"A","B","C","D","E","F","G","H","I","J","K","L","M",
                "N","O","P","Q","R","S","T","U","V","W","X","Y","Z">>
LowerChars == <<"a","b","c","d","e","f","g","h","i","j","k","l","m",
                "n","o","p","q","r","s","t","u","v","w","x","y","z">>
Digits == {"0","1","2","3","4","5","6","7","8","9"}

Range(s) == {s[i] : i \in 1..Len(s)}

\* str.lower() on one character, and on a string
LowerChar(c) ==
    IF \E i \in 1..26 : UpperChars[i] = c
    THEN LowerChars[CHOOSE i \in 1..26 : UpperChars[i] = c]
    ELSE c
Lower(s) == [i \in 1..Len(s) |-> LowerChar(s[i])]

\* needle occurs in hay at index i
OccursAt(needle, hay, i) ==
    /\ i >= 1
    /\ i + Len(needle) - 1 <= Len(hay)
    /\ SubSeq(hay, i, i + Len(needle) - 1) = needle

\* Python's "needle in hay"
Contains(needle, hay) == \E i \in 1..(Len(hay) + 1) : OccursAt(needle, hay, i)

\* str.find: the first index of character c, 0 when absent (1-based)
FindChar(c, s) ==
    IF \E i \in 1..Len(s) : s[i] = c
    THEN CHOOSE i \in 1..Len(s) : s[i] = c /\ \A j \in 1..(i - 1) : s[j] # c
    ELSE 0

(***************************************************************************)
(* CAREER_PAGE_PATTERNS, EXCLUDED_DOMAINS and the keyword list.  A pattern *)
(* is the sequence of its literal parts; consecutive parts are joined      *)
(* by ".*" in the regular expression.                                      *)
(***************************************************************************)
EXCLUDED_DOMAINS ==
    << <<"i","n","d","e","e","d",".","c","o","m">>,
       <<"l","i","n","k","e","d","i","n",".","c","o","m">>,
       <<"g","l","a","s","s","d","o","o","r",".","c","o","m">>,
       <<"z","i","p","r","e","c","r","u","i","t","e","r",".","c","o","m">>,
       <<"m","o","n","s","t","e","r",".","c","o","m">>,
       <<"n","a","u","k","r","i",".","c","o","m">>,
       <<"d","i","c","e",".","c","o","m">> >>
CAREER_PAGE_PATTERNS ==
    << << <<"/","c","a","r","e","e","r","s">> >>,
       << <<"/","j","o","b","s">> >>,
       << <<"/","j","o","i","n">> >>,
       << <<"/","w","o","r","k","-","w","i","t","h","-","u","s">> >>,
       << <<"/","o","p","p","o","r","t","u","n","i","t","i","e","s">> >>,
       << <<"b","o","a","r","d","s",".","g","r","e","e","n","h","o","u","s","e",".","i","o">> >>,
       << <<"j","o","b","s",".","l","e","v","e","r",".","c","o">> >>,
       << <<"c","a","r","e","e","r","s",".","s","m","a","r","t","r","e","c","r","u","i","t","e","r","s",".","c","o","m">> >>,
       << <<"w","o","r","k","d","a","y",".","c","o","m">>, <<"c","a","r","e","e","r","s">> >> >>
CAREER_KEYWORDS ==
    << <<"c","a","r","e","e","r">>,
       <<"j","o","b">>,
       <<"h","i","r","i","n","g">>,
       <<"j","o","i","n">>,
       <<"w","o","r","k">> >>

\* re.search(pattern, s): "." matches any character but a newline
RegexSearch(pattern, s) ==
    IF Len(pattern) = 1
    THEN Contains(pattern[1], s)
    ELSE \E i \in 1..Len(s), j \in 1..Len(s) :
            /\ OccursAt(pattern[1], s, i)
            /\ j >= i + Len(pattern[1])
            /\ OccursAt(pattern[2], s, j)
            /\ \A k \in (i + Len(pattern[1]))..(j - 1) : s[k] # "\n"

(***************************************************************************)
(* urllib.parse.urlparse, as far as is_valid_career_url uses it: the       *)
(* scheme is split off, the netloc is what follows "//" up to the first of *)
(* "/", "?", "#", and a netloc with an unmatched "[" or "]" raises         *)
(* ValueError.                                                             *)
(***************************************************************************)
SchemeChars == Range(UpperChars) \cup Range(LowerChars) \cup Digits \cup {"+", "-", "."}

HasScheme(url) ==
    LET i == FindChar(":", url)
    IN  /\ i > 1
        /\ url[1] \in Range(UpperChars) \cup Range(LowerChars)
        /\ \A k \in 1..(i - 1) : url[k] \in SchemeChars

AfterScheme(url) ==
    IF HasScheme(url) THEN SubSeq(url, FindChar(":", url) + 1, Len(url)) ELSE url

Netloc(url) ==
    LET rest == AfterScheme(url)
        ends == {k \in 3..Len(rest) : rest[k] \in {"/", "?", "#"}}
        delim == IF ends = {} THEN Len(rest) + 1
                 ELSE CHOOSE k \in ends : \A m \in ends : k <= m
    IN  IF Len(rest) >= 2 /\ rest[1] = "/" /\ rest[2] = "/"
        THEN SubSeq(rest, 3, delim - 1)
        ELSE <<>>

UrlparseRaises(url) ==
    LET netloc == Netloc(url)
    IN  \/ ("[" \in Range(netloc) /\ "]" \notin Range(netloc))
        \/ ("]" \in Range(netloc) /\ "[" \notin Range(netloc))

(***************************************************************************)
(* is_valid_career_url                                                     *)
(***************************************************************************)
\* the filter with the pattern and keyword tiers tried before the denylist
is_valid_career_url_KeywordFirst(url) ==
    IF UrlparseRaises(url) THEN FALSE
    ELSE LET full_url == Lower(url)
         IN  IF \E p \in 1..Len(CAREER_PAGE_PATTERNS) :
                    RegexSearch(CAREER_PAGE_PATTERNS[p], full_url)
             THEN TRUE
             ELSE IF \E k \in 1..Len(CAREER_KEYWORDS) : Contains(CAREER_KEYWORDS[k], full_url)
             THEN TRUE
             ELSE FALSE

\* the filter without its denylist tier
is_valid_career_url_NoDenylist(url) ==
    IF UrlparseRaises(url) THEN FALSE
    ELSE LET full_url == Lower(url)
         IN  \/ \E p \in 1..Len(CAREER_PAGE_PATTERNS) :
                   RegexSearch(CAREER_PAGE_PATTERNS[p], full_url)
             \/ \E k \in 1..Len(CAREER_KEYWORDS) : Contains(CAREER_KEYWORDS[k], full_url)

is_valid_career_url(url) ==
    IF UrlparseRaises(url) THEN FALSE
    ELSE LET domain == Lower(Netloc(url))
             full_url == Lower(url)
         IN  IF \E e \in 1..Len(EXCLUDED_DOMAINS) : Contains(EXCLUDED_DOMAINS[e], domain)
             THEN FALSE
             ELSE IF \E p \in 1..Len(CAREER_PAGE_PATTERNS) :
                        RegexSearch(CAREER_PAGE_PATTERNS[p], full_url)
             THEN TRUE
             ELSE IF \E k \in 1..Len(CAREER_KEYWORDS) : Contains(CAREER_KEYWORDS[k], full_url)
             THEN TRUE
             ELSE FALSE

(***************************************************************************)
(* URLs the runs draw from                                                 *)
(***************************************************************************)
PfxHttps == <<"h","t","t","p","s",":","/","/">>
PfxUpper == <<"H","T","T","P","S",":","/","/">>
PfxSlashes == <<"/","/">>
PfxBracket == <<"h","t","t","p","s",":","/","/","[">>
HostAcme == <<"a","c","m","e",".","c","o","m">>
HostLinkedin == <<"w","w","w",".","l","i","n","k","e","d","i","n",".","c","o","m">>
HostLinkedinMixed == <<"w","w","w",".","L","i","n","k","e","d","I","n",".","c","o","m">>
HostNotIndeed == <<"n","o","t","i","n","d","e","e","d",".","c","o","m">>
HostGreenhouse == <<"b","o","a","r","d","s",".","g","r","e","e","n","h","o","u","s","e",".","i","o">>
HostWorkday == <<"a","c","m","e",".","m","y","w","o","r","k","d","a","y",".","c","o","m">>
HostUserinfo == <<"l","i","n","k","e","d","i","n",".","c","o","m","@","a","c","m","e",".","c","o","m">>
TailAbout == <<"/","a","b","o","u","t">>
TailCareers == <<"/","c","a","r","e","e","r","s">>
TailJobsView == <<"/","j","o","b","s","/","v","i","e","w","/","1","2","3">>
TailAcmeJobs == <<"/","a","c","m","e","/","j","o","b","s","/","1">>
TailRefLinkedin == <<"/","a","b","o","u","t","?","r","e","f","=","l","i","n","k","e","d","i","n",".","c","o","m">>
TailHiring == <<"/","w","e","-","a","r","e","-","h","i","r","i","n","g">>
TailNetwork == <<"/","n","e","t","w","o","r","k">>
TailUpperJobs == <<"/","J","o","b","s">>
TailWd == <<"/","w","d","/","C","a","r","e","e","r","s">>
TailTeam == <<"/","t","e","a","m">>

FilterPrefixes == {<<>>, PfxHttps, PfxUpper, PfxSlashes, PfxBracket}
FilterHosts == {<<>>, HostAcme, HostLinkedin, HostLinkedinMixed, HostNotIndeed,
                HostGreenhouse, HostWorkday, HostUserinfo}
FilterTails == {<<>>, TailAbout, TailCareers, TailJobsView, TailAcmeJobs, TailRefLinkedin,
                TailHiring, TailNetwork, TailUpperJobs, TailWd, TailTeam}
FilterUrls == {p \o h \o t : p \in FilterPrefixes, h \in FilterHosts, t \in FilterTails}

(***************************************************************************)
(* discover_career_pages: one pass of the inner for loop over the results  *)
(* of one search.  hrefs are the result.get('href', '') values in order;   *)
(* an empty href is skipped, and the loop breaks once the set has          *)
(* max_results members.                                                    *)
(***************************************************************************)
RECURSIVE ConsumeResults(_, _, _)
ConsumeResults(found, hrefs, max_results) ==
    IF hrefs = <<>> THEN found
    ELSE LET url == Head(hrefs)
         IN  IF url # <<>> /\ is_valid_career_url(url)
             THEN LET added == found \cup {url}
                  IN  IF Cardinality(added) >= max_results
                      THEN added
                      ELSE ConsumeResults(added, Tail(hrefs), max_results)
             ELSE ConsumeResults(found, Tail(hrefs), max_results)

\* list(a_set): the members in an order the set's hashing decides
Orderings(S) ==
    {s \in [1..Cardinality(S) -> S] : \A i, j \in 1..Cardinality(S) : i # j => s[i] # s[j]}

(***************************************************************************)
(* crawl_page.  fetch is what client.get came to: kind "exception", or     *)
(* kind "response" with a status code and the length of the cleaned text.  *)
(* The page text is kept as its length only.                               *)
(***************************************************************************)
NoContent == [present |-> FALSE, len |-> 0]

\* crawl_page without the check of the status code
crawl_page_NoStatusCheck(fetch) ==
    IF fetch.kind = "exception" THEN NoContent
    ELSE [present |-> TRUE, len |-> Min(fetch.len, MAX_TEXT_LEN)]

crawl_page(fetch) ==
    IF fetch.kind = "exception" THEN NoContent
    ELSE IF fetch.status # 200 THEN NoContent
    ELSE [present |-> TRUE, len |-> Min(fetch.len, MAX_TEXT_LEN)]

\* a test that takes only text long enough to extract from as content
Truthy_LongEnough(content) == content.present /\ content.len >= MIN_CONTENT_LEN

\* "if content:" -- None and the empty string are both false
Truthy(content) == content.present /\ content.len > 0

\* a short-circuit on absent or empty text only
TooShort_EmptyOnly(content) == ~Truthy(content)

\* extract_jobs_from_content returns [] before any request
TooShort(content) == ~Truthy(content) \/ content.len < MIN_CONTENT_LEN

(***************************************************************************)
(* DiscoveredJob and extract_jobs_from_content.                            *)
(*                                                                         *)
(* An element of the model's JSON list is a record:                        *)
(*   is_dict          : it is a JSON object (else .get raises)             *)
(*   fields_ok        : title, company, description are present strings    *)
(*   title            : its title                                          *)
(*   apply_url        : its apply_url, <<>> when absent or empty           *)
(*   source_url       : the source_url the model wrote                     *)
(*   requirements     : its requirements list                              *)
(*   has_score, score : confidence_score given, and its value in tenths    *)
(***************************************************************************)
CONFIDENCE_GE == 0
CONFIDENCE_LE == 10
CONFIDENCE_DEFAULT == 0
COOLDOWN_MINUTES_DEFAULT == 5

\* confidence_score without its ge/le constraints
DiscoveredJobValid_NoRange(d) == d.is_dict /\ d.fields_ok

\* the validation DiscoveredJob(**job_dict) performs
DiscoveredJobValid(d) ==
    /\ d.is_dict
    /\ d.fields_ok
    /\ d.has_score => (d.score >= CONFIDENCE_GE /\ d.score <= CONFIDENCE_LE)

\* a record that keeps the source_url the model wrote
BuildJob_TrustsModel(d, source_url) ==
    [title |-> d.title,
     apply_url |-> IF d.apply_url = <<>> THEN source_url ELSE d.apply_url,
     source_url |-> IF d.source_url = <<>> THEN source_url ELSE d.source_url,
     requirements |-> d.requirements,
     confidence_score |-> IF d.has_score THEN d.score ELSE CONFIDENCE_DEFAULT]

\* the record DiscoveredJob(**job_dict) builds after lines 346-348
BuildJob(d, source_url) ==
    [title |-> d.title,
     apply_url |-> IF d.apply_url = <<>> THEN source_url ELSE d.apply_url,
     source_url |-> source_url,
     requirements |-> d.requirements,
     confidence_score |-> IF d.has_score THEN d.score ELSE CONFIDENCE_DEFAULT]

\* a loop that gives the page up at the first element that fails validation
RECURSIVE ParseJobs_StopAtInvalid(_, _)
ParseJobs_StopAtInvalid(jobs_data, source_url) ==
    IF jobs_data = <<>> THEN <<>>
    ELSE IF DiscoveredJobValid(Head(jobs_data))
         THEN <<BuildJob(Head(jobs_data), source_url)>>
              \o ParseJobs_StopAtInvalid(Tail(jobs_data), source_url)
         ELSE <<>>

RECURSIVE ParseJobs(_, _)
ParseJobs(jobs_data, source_url) ==
    IF jobs_data = <<>> THEN <<>>
    ELSE IF DiscoveredJobValid(Head(jobs_data))
         THEN <<BuildJob(Head(jobs_data), source_url)>> \o ParseJobs(Tail(jobs_data), source_url)
         ELSE ParseJobs(Tail(jobs_data), source_url)

\* an extractor that also takes the list inside a top-level non-list value
extract_jobs_from_content_Unwraps(resp, source_url) ==
    IF resp.kind \in {"list", "non_list"} THEN ParseJobs(resp.payload, source_url) ELSE <<>>

\* resp as for generate_search_queries; the return value once a request was made.
\* For kind "non_list" resp.payload is what the non-list value wraps.
extract_jobs_from_content(resp, source_url) ==
    IF resp.kind = "list" THEN ParseJobs(resp.payload, source_url) ELSE <<>>

(***************************************************************************)
(* The merge of discover_jobs: results in task order, lists extended,      *)
(* exceptions turned into errors; then list.sort(key=confidence_score,     *)
(* reverse=True), which is stable, and the slice to max_results.           *)
(***************************************************************************)
\* a merge that gives up at the first task that brought nothing
RECURSIVE MergeJobs_StopAtEmpty(_)
MergeJobs_StopAtEmpty(rs) ==
    IF rs = <<>> THEN <<>>
    ELSE IF Head(rs).kind = "list" /\ Head(rs).jobs # <<>>
         THEN Head(rs).jobs \o MergeJobs_StopAtEmpty(Tail(rs))
         ELSE <<>>

RECURSIVE MergeJobs(_)
MergeJobs(rs) ==
    IF rs = <<>> THEN <<>>
    ELSE (IF Head(rs).kind = "list" THEN Head(rs).jobs ELSE <<>>) \o MergeJobs(Tail(rs))

RECURSIVE MergeErrors(_)
MergeErrors(rs) ==
    IF rs = <<>> THEN <<>>
    ELSE (IF Head(rs).kind = "exception" THEN <<Head(rs).msg>> ELSE <<>>)
         \o MergeErrors(Tail(rs))

\* an insertion that puts x in front of the elements of equal score
RECURSIVE InsertDesc_Unstable(_, _)
InsertDesc_Unstable(sorted, x) ==
    IF sorted = <<>> THEN <<x>>
    ELSE IF Head(sorted).confidence_score > x.confidence_score
         THEN <<Head(sorted)>> \o InsertDesc_Unstable(Tail(sorted), x)
         ELSE <<x>> \o sorted

\* x goes behind every element whose score is not smaller
RECURSIVE InsertDesc(_, _)
InsertDesc(sorted, x) ==
    IF sorted = <<>> THEN <<x>>
    ELSE IF Head(sorted).confidence_score >= x.confidence_score
         THEN <<Head(sorted)>> \o InsertDesc(Tail(sorted), x)
         ELSE <<x>> \o sorted

RECURSIVE SortByConfidenceDesc(_)
SortByConfidenceDesc(s) ==
    IF s = <<>> THEN <<>>
    ELSE InsertDesc(SortByConfidenceDesc(SubSeq(s, 1, Len(s) - 1)), s[Len(s)])

\* lines 444-445
SortAndLimit(jobs, max_results) == PySliceTo(SortByConfidenceDesc(jobs), max_results)

\* an exit from the semaphore that gives no slot back
Release_Leaks(value) == value

\* leaving "async with semaphore" on any path: the slot is given back
Release(value) == value + 1

\* a semaphore that never makes a task wait
SemaphoreFree_NoWait(value) == TRUE

\* "async with semaphore": a task enters only while the value is positive
SemaphoreFree(value) == value > 0

(***************************************************************************)
(* Inputs the runs draw from                                               *)
(***************************************************************************)
UrlAcmeCareers == PfxHttps \o HostAcme \o TailCareers
UrlGreenhouse == PfxHttps \o HostGreenhouse \o TailAcmeJobs
UrlWorkday == PfxHttps \o HostWorkday \o TailWd
UrlLinkedin == PfxHttps \o HostLinkedin \o TailJobsView
UrlAbout == PfxHttps \o HostAcme \o TailAbout

CustomTerms(n) == [i \in 1..n |-> "custom term " \o ToString(i)]

Resp(kind, payload) == [kind |-> kind, payload |-> payload]
FailureKinds == {"transport_error", "http_error", "bad_envelope", "bad_json", "non_list"}
FailedResponses == {Resp(k, <<>>) : k \in FailureKinds}
\* the failures that are exceptions: client.post raising, a KeyError or
\* IndexError on the envelope, json.JSONDecodeError
RaisingKinds == {"transport_error", "bad_envelope", "bad_json"}

\* requests as they may arrive, before validation
RawRequests(roles, skill_lists, term_counts, limits) ==
    [role : roles,
     skills : skill_lists,
     location : {"Remote"},
     max_results : limits \cup {MAX_RESULTS_LE + 1},
     custom_search_terms : {CustomTerms(n) : n \in term_counts}]

PipelineRequests ==
    {r \in RawRequests({"Backend Engineer"}, {<<"python">>}, {0},
                       (0 - MaxNegResults)..MaxReqResults) :
        DiscoverJobsRequestValid(r)}

PipelineQueryResponses ==
    {Resp("http_error", <<>>), Resp("list", <<>>), Resp("list", <<"acme careers">>)}

\* what one ddgs.text call yields; raise_after = k makes the call raise once k
\* results were consumed, -1 lets it finish
SearchResultLists ==
    {<<>>, <<UrlLinkedin, UrlAcmeCareers>>, <<UrlAcmeCareers, UrlGreenhouse>>,
     <<<<>>, UrlAbout, UrlWorkday>>, <<UrlGreenhouse, UrlWorkday, UrlAcmeCareers>>}

FetchOutcomes ==
    {[kind |-> "exception", status |-> 0, len |-> 0],
     [kind |-> "response", status |-> 404, len |-> 500],
     [kind |-> "response", status |-> 200, len |-> 0],
     [kind |-> "response", status |-> 200, len |-> 99],
     [kind |-> "response", status |-> 200, len |-> 100],
     [kind |-> "response", status |-> 200, len |-> 20000]}

Element(title, score) ==
    [is_dict |-> TRUE, fields_ok |-> TRUE, title |-> title, apply_url |-> <<>>,
     source_url |-> <<>>, requirements |-> <<>>, has_score |-> TRUE, score |-> score]
NotADict == [Element("", 5) EXCEPT !.is_dict = FALSE]
MissingFields(title) == [Element(title, 5) EXCEPT !.fields_ok = FALSE]
NoScore(title) == [Element(title, 0) EXCEPT !.has_score = FALSE]
WithUrls(title, score) ==
    [Element(title, score) EXCEPT !.apply_url = UrlGreenhouse, !.source_url = UrlLinkedin]

ExtractPayloads ==
    {<<>>,
     <<Element("J1", 5)>>,
     <<Element("J1", 10), Element("J2", 5)>>,
     <<Element("J1", 5), Element("J2", 10)>>,
     <<Element("over", 15), WithUrls("J2", 10)>>,
     <<Element("under", 0 - 1), NotADict, NoScore("J3")>>,
     <<MissingFields("J1"), Element("J2", 5)>>}

\* extract_jobs_from_content on its own: absent, short and long page texts,
\* every kind of failure, lists with invalid elements and long requirements
Requirements(n) == [i \in 1..n |-> "requirement " \o ToString(i)]
WithRequirements(title, score, n) ==
    [Element(title, score) EXCEPT !.requirements = Requirements(n)]
ExtractContents ==
    {NoContent,
     [present |-> TRUE, len |-> 0],
     [present |-> TRUE, len |-> MIN_CONTENT_LEN - 1],
     [present |-> TRUE, len |-> MIN_CONTENT_LEN],
     [present |-> TRUE, len |-> MAX_TEXT_LEN]}
ExtractSourceUrls == {UrlAcmeCareers, UrlGreenhouse, UrlWorkday}
ExtractCallPayloads ==
    ExtractPayloads
    \cup {<<WithRequirements("J1", 5, n)>> : n \in {0, MaxRequirements - 1, MaxRequirements}}
    \cup {<<Element("J1", 5), NotADict, Element("J2", 5), MissingFields("J3"),
            Element("J4", 10)>>,
          <<WithUrls("J1", 5), Element("J2", 7)>>}
ExtractCallResponses ==
    FailedResponses
    \cup {Resp("non_list", <<Element("J1", 5)>>)}
    \cup {Resp("list", p) : p \in ExtractCallPayloads}

PipelineExtractResponses == FailedResponses \cup {Resp("list", p) : p \in ExtractPayloads}

\* the query synthesizer on its own: every kind of failure, short and long lists
QueryRequests ==
    {r \in RawRequests({"", "Backend Engineer"}, {<<>>, <<"python", "sql">>},
                       0..MaxCustomTerms, {MAX_RESULTS_LE}) : DiscoverJobsRequestValid(r)}
ModelQueries(n) == [i \in 1..n |-> "model query " \o ToString(i)]
QueryResponses == FailedResponses \cup {Resp("list", ModelQueries(n)) : n \in {0, 1, 8, 11}}

(***************************************************************************)
(* discover_jobs                                                           *)
(***************************************************************************)
NoReturn == [returned |-> FALSE, jobs |-> <<>>, queries |-> <<>>,
             sources_crawled |-> 0, errors |-> <<>>]
Returned(jobs, qs, n, errs) ==
    [returned |-> TRUE, jobs |-> jobs, queries |-> qs, sources_crawled |-> n, errors |-> errs]

Pending == [kind |-> "pending", jobs |-> <<>>, msg |-> ""]

\* what a fetch brought: page text, or nothing (an exception, a status other
\* than 200, or an empty text)
FetchBrought(fetch) ==
    IF fetch.kind = "response" /\ fetch.status = 200 /\ fetch.len > 0
    THEN "content" ELSE "no_content"

\* discover_career_pages before its first loop iteration
NoSearch == [ran |-> FALSE, hrefs |-> <<>>, raised |-> FALSE, slept |-> FALSE]

\* lines 191-205: the search raises once raise_after results were consumed,
\* unless the inner loop broke before on a full set
SearchRaised(raise_after, found, max_results) ==
    raise_after >= 0 /\ Cardinality(found) < max_results

\* GroqAPIKeyManager.__init__
GroqAPIKeyManager(api_keys, cooldown_minutes) ==
    [api_keys |-> api_keys, current_key_index |-> 0, failed_keys |-> [k \in {} |-> 0],
     cooldown_minutes |-> cooldown_minutes]

\* lines 38-42: the entries whose cooldown has not expired
CleanExpired(failed_keys, now, cooldown_minutes) ==
    [k \in {x \in DOMAIN failed_keys : now - failed_keys[x] < cooldown_minutes} |->
        failed_keys[k]]

\* lines 45-52: up to n steps of the for loop, from index idx (0-based)
RECURSIVE FindKey(_, _, _, _)
FindKey(api_keys, failed_keys, idx, n) ==
    IF n = 0 THEN [found |-> FALSE, index |-> idx]
    ELSE IF api_keys[idx + 1] \notin DOMAIN failed_keys
         THEN [found |-> TRUE, index |-> idx]
         ELSE FindKey(api_keys, failed_keys, (idx + 1) % Len(api_keys), n - 1)

\* a lookup that stops at the first key in cooldown
get_available_key_CurrentOnly(m, now) ==
    LET failed == CleanExpired(m.failed_keys, now, m.cooldown_minutes)
    IN  [manager |-> [m EXCEPT !.failed_keys = failed],
         key |-> IF Len(m.api_keys) > 0 THEN m.api_keys[m.current_key_index + 1] ELSE "None"]

\* get_available_key: the manager after the call, and the key returned
get_available_key(m, now) ==
    LET failed == CleanExpired(m.failed_keys, now, m.cooldown_minutes)
        r == FindKey(m.api_keys, failed, m.current_key_index, Len(m.api_keys))
    IN  [manager |-> [m EXCEPT !.failed_keys = failed, !.current_key_index = r.index],
         key |-> IF r.found THEN m.api_keys[r.index + 1]
                 ELSE IF Len(m.api_keys) > 0 THEN m.api_keys[r.index + 1]
                 ELSE "None"]

\* mark_key_failed, on a manager with at least one key
mark_key_failed(m, api_key, now) ==
    [m EXCEPT !.failed_keys = [k \in DOMAIN m.failed_keys \cup {api_key} |->
                                  IF k = api_key THEN now ELSE m.failed_keys[k]],
              !.current_key_index = (m.current_key_index + 1) % Len(m.api_keys)]

\* rotate_to_next_key
rotate_to_next_key(m) ==
    IF Len(m.api_keys) > 1
    THEN [m EXCEPT !.current_key_index = (m.current_key_index + 1) % Len(m.api_keys)]
    ELSE m

\* no call was made on the key manager
NoKeyCall == [op |-> "none", key |-> "None", at |-> 0]

\* the endpoint was not invoked
NoEndpoint == [pc |-> "idle", api_key |-> "None", status |-> 0]

\* no stand-alone extract_jobs_from_content call was made
NoExtraction ==
    [pc |-> "unset", content |-> NoContent, source_url |-> <<>>, resp |-> Resp("none", <<>>),
     jobs |-> <<>>, requests |-> 0]
ListResult(jobs) == [kind |-> "list", jobs |-> jobs, msg |-> ""]

filterVars == <<filter_url, filter_out>>
discoverVars == <<qi, discovered_urls, search>>
crawlVars == <<semaphore, tpc, results, model_output, sources_crawled, all_jobs, fetch_calls,
               extract_calls, fetched, extract_raised>>
serviceVars == <<key_manager, clock, key_call, endpoint>>

Tasks == DOMAIN tpc
InGate == {i \in Tasks : tpc[i] \in {"crawling", "extracting"}}

InitWith(requests) ==
    /\ pc = "Idle"
    /\ request \in requests
    /\ queries = <<>>
    /\ query_resp = "none"
    /\ qi = 1
    /\ discovered_urls = {}
    /\ urls = <<>>
    /\ semaphore = SEMAPHORE_SLOTS
    /\ tpc = <<>>
    /\ results = <<>>
    /\ model_output = <<>>
    /\ sources_crawled = 0
    /\ errors = <<>>
    /\ all_jobs = <<>>
    /\ ret = NoReturn
    /\ fetch_calls = 0
    /\ extract_calls = 0
    /\ filter_url = <<>>
    /\ filter_out = "unset"
    /\ fetched = <<>>
    /\ extraction = NoExtraction
    /\ extract_raised = <<>>
    /\ search = NoSearch
    /\ key_manager = GroqAPIKeyManager(<<>>, COOLDOWN_MINUTES_DEFAULT)
    /\ clock = 0
    /\ key_call = NoKeyCall
    /\ endpoint = NoEndpoint

\* lines 381-395: errors = [], then the query synthesizer is awaited
GenerateQueries(responses) ==
    /\ pc = "Idle"
    /\ \E resp \in responses :
          /\ queries' = generate_search_queries(request.role, request.skills,
                                                request.location,
                                                request.custom_search_terms, resp)
          /\ query_resp' = resp.kind
    /\ pc' = "QueriesGenerated"
    /\ errors' = <<>>
    /\ qi' = 1
    /\ discovered_urls' = {}
    /\ search' = NoSearch
    /\ UNCHANGED <<request, urls, crawlVars, ret, filterVars, extraction, serviceVars>>

\* lines 185-208: one iteration of the for loop over queries
SearchQuery ==
    /\ pc = "QueriesGenerated"
    /\ qi <= Len(queries)
    /\ Cardinality(discovered_urls) < request.max_results
    /\ \E hrefs \in SearchResultLists, raise_after \in (0 - 1)..2 :
          /\ raise_after <= Len(hrefs)
          /\ LET consumed == IF raise_after < 0 THEN hrefs ELSE SubSeq(hrefs, 1, raise_after)
                  found == ConsumeResults(discovered_urls, consumed, request.max_results)
                  raised == SearchRaised(raise_after, found, request.max_results)
              IN  /\ discovered_urls' = found
                  /\ search' = [ran |-> TRUE, hrefs |-> consumed, raised |-> raised,
                                slept |-> ~raised]
    /\ qi' = qi + 1
    /\ UNCHANGED <<pc, request, queries, query_resp, urls, crawlVars, errors, ret, filterVars,
                   extraction, serviceVars>>

\* lines 183, 210-213: DDGS() raises and the outer handler returns the empty set
DiscoverError ==
    /\ pc = "QueriesGenerated"
    /\ qi = 1
    /\ urls' = PySliceTo(<<>>, request.max_results)
    /\ pc' = "URLsDiscovered"
    /\ search' = NoSearch
    /\ UNCHANGED <<request, queries, query_resp, qi, discovered_urls, crawlVars, errors, ret,
                   filterVars, extraction, serviceVars>>

\* a discovery that gives up after a failed search
DiscoverReturn_OnFailure ==
    /\ pc = "QueriesGenerated"
    /\ qi > Len(queries) \/ Cardinality(discovered_urls) >= request.max_results \/ search.raised
    /\ \E order \in Orderings(discovered_urls) :
          urls' = PySliceTo(order, request.max_results)
    /\ pc' = "URLsDiscovered"
    /\ search' = NoSearch
    /\ UNCHANGED <<request, queries, query_resp, qi, discovered_urls, crawlVars, errors, ret,
                   filterVars, extraction, serviceVars>>

\* lines 185-187, 213: the loop ends or breaks; list(discovered_urls)[:max_results]
DiscoverReturn ==
    /\ pc = "QueriesGenerated"
    /\ qi > Len(queries) \/ Cardinality(discovered_urls) >= request.max_results
    /\ \E order \in Orderings(discovered_urls) :
          urls' = PySliceTo(order, request.max_results)
    /\ pc' = "URLsDiscovered"
    /\ search' = NoSearch
    /\ UNCHANGED <<request, queries, query_resp, qi, discovered_urls, crawlVars, errors, ret,
                   filterVars, extraction, serviceVars>>

\* an early return taken whether or not URLs were discovered
ReturnNoUrls_Always ==
    /\ pc = "URLsDiscovered"
    /\ errors' = Append(errors, <<"No career pages found for given criteria">>)
    /\ ret' = Returned(<<>>, queries, 0, errors')
    /\ pc' = "Done"
    /\ UNCHANGED <<request, queries, query_resp, discoverVars, urls, crawlVars, filterVars,
                   extraction, serviceVars>>

\* the empty path without its explanatory entry
ReturnNoUrls_Silent ==
    /\ pc = "URLsDiscovered"
    /\ urls = <<>>
    /\ errors' = errors
    /\ ret' = Returned(<<>>, queries, 0, errors')
    /\ pc' = "Done"
    /\ UNCHANGED <<request, queries, query_resp, discoverVars, urls, crawlVars, filterVars, extraction, serviceVars>>

\* lines 402-404
ReturnNoUrls ==
    /\ pc = "URLsDiscovered"
    /\ urls = <<>>
    /\ errors' = Append(errors, <<"No career pages found for given criteria">>)
    /\ ret' = Returned(<<>>, queries, 0, errors')
    /\ pc' = "Done"
    /\ UNCHANGED <<request, queries, query_resp, discoverVars, urls, crawlVars, filterVars, extraction, serviceVars>>

\* lines 407-435: the accumulators, the semaphore, one task per URL
StartCrawl ==
    /\ pc = "URLsDiscovered"
    /\ urls # <<>>
    /\ all_jobs' = <<>>
    /\ sources_crawled' = 0
    /\ semaphore' = SEMAPHORE_SLOTS
    /\ tpc' = [i \in 1..Len(urls) |-> "waiting"]
    /\ results' = [i \in 1..Len(urls) |-> Pending]
    /\ model_output' = [i \in 1..Len(urls) |-> <<>>]
    /\ fetched' = [i \in 1..Len(urls) |-> "pending"]
    /\ extract_raised' = [i \in 1..Len(urls) |-> FALSE]
    /\ pc' = "Crawling"
    /\ UNCHANGED <<request, queries, query_resp, discoverVars, urls, errors, ret, fetch_calls,
                   extract_calls, filterVars, extraction, serviceVars>>

\* lines 415-417: the task enters the semaphore and awaits crawl_page
Acquire(i) ==
    /\ pc = "Crawling"
    /\ tpc[i] = "waiting"
    /\ SemaphoreFree(semaphore)
    /\ semaphore' = semaphore - 1
    /\ tpc' = [tpc EXCEPT ![i] = "crawling"]
    /\ fetch_calls' = fetch_calls + 1
    /\ UNCHANGED <<pc, request, queries, query_resp, discoverVars, urls, results,
                   model_output, sources_crawled, errors, all_jobs, ret, extract_calls,
                   fetched, extract_raised, filterVars, extraction, serviceVars>>

\* lines 417-431 and 280-281: crawl_page returns
CrawlReturn(i, fetches) ==
    /\ pc = "Crawling"
    /\ tpc[i] = "crawling"
    /\ \E fetch \in fetches :
          LET content == crawl_page(fetch)
          IN  /\ fetched' = [fetched EXCEPT ![i] = FetchBrought(fetch)]
              /\ IF Truthy(content)
                 THEN /\ sources_crawled' = sources_crawled + 1
                      /\ errors' = errors
                      /\ IF TooShort(content)
                         THEN /\ results' = [results EXCEPT ![i] = ListResult(<<>>)]
                              /\ tpc' = [tpc EXCEPT ![i] = "done"]
                              /\ semaphore' = Release(semaphore)
                              /\ extract_calls' = extract_calls
                         ELSE /\ tpc' = [tpc EXCEPT ![i] = "extracting"]
                              /\ extract_calls' = extract_calls + 1
                              /\ UNCHANGED <<results, semaphore>>
                 ELSE /\ errors' = Append(errors, <<"Failed to crawl: ", urls[i]>>)
                      /\ results' = [results EXCEPT ![i] = ListResult(<<>>)]
                      /\ tpc' = [tpc EXCEPT ![i] = "done"]
                      /\ semaphore' = Release(semaphore)
                      /\ UNCHANGED <<sources_crawled, extract_calls>>
    /\ UNCHANGED <<pc, request, queries, query_resp, discoverVars, urls, model_output,
                   all_jobs, ret, fetch_calls, extract_raised, filterVars, extraction,
                   serviceVars>>

\* lines 305-364 and 427-428: the model request returns, the task leaves the semaphore
ExtractReturn(i, responses) ==
    /\ pc = "Crawling"
    /\ tpc[i] = "extracting"
    /\ \E resp \in responses :
          /\ results' = [results EXCEPT
                            ![i] = ListResult(extract_jobs_from_content(resp, urls[i]))]
          /\ model_output' = [model_output EXCEPT
                                 ![i] = IF resp.kind = "list" THEN resp.payload ELSE <<>>]
          /\ extract_raised' = [extract_raised EXCEPT ![i] = resp.kind \in RaisingKinds]
    /\ tpc' = [tpc EXCEPT ![i] = "done"]
    /\ semaphore' = Release(semaphore)
    /\ UNCHANGED <<pc, request, queries, query_resp, discoverVars, urls, sources_crawled, errors, all_jobs,
                   ret, fetch_calls, extract_calls, fetched, filterVars, extraction, serviceVars>>

\* a merge that does not wait for the tasks still running
Aggregate_BeforeJoin ==
    /\ pc = "Crawling"
    /\ \E i \in Tasks : tpc[i] = "done"
    /\ errors' = errors \o MergeErrors(results)
    /\ all_jobs' = SortAndLimit(all_jobs \o MergeJobs(results), request.max_results)
    /\ pc' = "Aggregated"
    /\ UNCHANGED <<request, queries, query_resp, discoverVars, urls, semaphore, tpc, results,
                   model_output, sources_crawled, ret, fetch_calls, extract_calls, fetched,
                   extract_raised, filterVars, extraction, serviceVars>>

\* lines 435-445: gather returns once every task is done; merge, sort, slice
Aggregate ==
    /\ pc = "Crawling"
    /\ \A i \in Tasks : tpc[i] = "done"
    /\ errors' = errors \o MergeErrors(results)
    /\ all_jobs' = SortAndLimit(all_jobs \o MergeJobs(results), request.max_results)
    /\ pc' = "Aggregated"
    /\ UNCHANGED <<request, queries, query_resp, discoverVars, urls, semaphore, tpc, results,
                   model_output, sources_crawled, ret, fetch_calls, extract_calls, fetched,
                   extract_raised, filterVars, extraction, serviceVars>>

\* lines 447-449
Return ==
    /\ pc = "Aggregated"
    /\ ret' = Returned(all_jobs, queries, sources_crawled, errors)
    /\ pc' = "Done"
    /\ UNCHANGED <<request, queries, query_resp, discoverVars, urls, crawlVars, errors, filterVars, extraction, serviceVars>>

Init == InitWith(PipelineRequests)

Next ==
    \/ GenerateQueries(PipelineQueryResponses)
    \/ SearchQuery
    \/ DiscoverError
    \/ DiscoverReturn
    \/ ReturnNoUrls
    \/ StartCrawl
    \/ \E i \in Tasks : Acquire(i)
    \/ \E i \in Tasks : CrawlReturn(i, FetchOutcomes)
    \/ \E i \in Tasks : ExtractReturn(i, PipelineExtractResponses)
    \/ Aggregate
    \/ Return

Spec == Init /\ [][Next]_vars

(***************************************************************************)
(* The query synthesizer on its own                                        *)
(***************************************************************************)
InitQueries == InitWith(QueryRequests)

NextQueries == GenerateQueries(QueryResponses)

SpecQueries == InitQueries /\ [][NextQueries]_vars

(***************************************************************************)
(* The URL filter on its own                                               *)
(***************************************************************************)
InitFilter ==
    /\ InitWith(PipelineRequests)
    /\ request.max_results = 1

FilterCall ==
    /\ filter_out = "unset"
    /\ \E url \in FilterUrls :
          /\ filter_url' = url
          /\ filter_out' = IF is_valid_career_url(url) THEN "True" ELSE "False"
    /\ UNCHANGED <<pc, request, queries, query_resp, discoverVars, urls, crawlVars, errors, ret,
                   extraction, serviceVars>>

NextFilter == FilterCall

SpecFilter == InitFilter /\ [][NextFilter]_vars

(***************************************************************************)
(* extract_jobs_from_content on its own                                    *)
(***************************************************************************)
InitExtract ==
    /\ InitWith(PipelineRequests)
    /\ request.max_results = 1

\* lines 280-281 and 305-315: the short-circuit, or the request to the model
ExtractCall ==
    /\ extraction.pc = "unset"
    /\ \E content \in ExtractContents, source_url \in ExtractSourceUrls :
          extraction' =
             IF TooShort(content)
             THEN [extraction EXCEPT !.pc = "returned", !.content = content,
                                     !.source_url = source_url]
             ELSE [extraction EXCEPT !.pc = "requested", !.content = content,
                                     !.source_url = source_url, !.requests = 1]
    /\ UNCHANGED <<pc, request, queries, query_resp, discoverVars, urls, crawlVars, errors, ret,
                   filterVars, serviceVars>>

\* lines 316-364: the request returns or raises, and the function returns
ExtractRespond ==
    /\ extraction.pc = "requested"
    /\ \E resp \in ExtractCallResponses :
          extraction' =
             [extraction EXCEPT !.pc = "returned", !.resp = resp,
                                !.jobs = extract_jobs_from_content(resp, extraction.source_url)]
    /\ UNCHANGED <<pc, request, queries, query_resp, discoverVars, urls, crawlVars, errors, ret,
                   filterVars, serviceVars>>

NextExtract == ExtractCall \/ ExtractRespond

SpecExtract == InitExtract /\ [][NextExtract]_vars

(***************************************************************************)
(* GroqAPIKeyManager on its own: any sequence of calls, with time passing  *)
(***************************************************************************)
ApiKeys(n) == [i \in 1..n |-> "key" \o ToString(i)]

pipelineVars == <<pc, request, queries, query_resp, discoverVars, urls, crawlVars, errors, ret,
                  filterVars, extraction>>

InitKeys ==
    /\ pc = "Idle"
    /\ request \in PipelineRequests
    /\ request.max_results = 1
    /\ queries = <<>>
    /\ query_resp = "none"
    /\ qi = 1
    /\ discovered_urls = {}
    /\ urls = <<>>
    /\ semaphore = SEMAPHORE_SLOTS
    /\ tpc = <<>>
    /\ results = <<>>
    /\ model_output = <<>>
    /\ sources_crawled = 0
    /\ errors = <<>>
    /\ all_jobs = <<>>
    /\ ret = NoReturn
    /\ fetch_calls = 0
    /\ extract_calls = 0
    /\ filter_url = <<>>
    /\ filter_out = "unset"
    /\ fetched = <<>>
    /\ extraction = NoExtraction
    /\ extract_raised = <<>>
    /\ search = NoSearch
    /\ \E n \in 0..MaxKeys, cooldown_minutes \in 1..MaxCooldown :
          key_manager = GroqAPIKeyManager(ApiKeys(n), cooldown_minutes)
    /\ clock = 0
    /\ key_call = NoKeyCall
    /\ endpoint = NoEndpoint

\* a minute passes
Tick ==
    /\ clock < MaxClock
    /\ clock' = clock + 1
    /\ UNCHANGED <<pipelineVars, key_manager, key_call, endpoint>>

\* lines 33-59
GetAvailableKey ==
    /\ LET r == get_available_key(key_manager, clock)
       IN  /\ key_manager' = r.manager
           /\ key_call' = [op |-> "get_available_key", key |-> r.key, at |-> clock]
    /\ UNCHANGED <<pipelineVars, clock, endpoint>>

\* lines 61-67, for any configured key: the current one or another
MarkKeyFailed ==
    /\ \E k \in 1..Len(key_manager.api_keys) :
          /\ key_manager' = mark_key_failed(key_manager, key_manager.api_keys[k], clock)
          /\ key_call' = [op |-> "mark_key_failed", key |-> key_manager.api_keys[k],
                          at |-> clock]
    /\ UNCHANGED <<pipelineVars, clock, endpoint>>

\* lines 69-73
RotateToNextKey ==
    /\ key_manager' = rotate_to_next_key(key_manager)
    /\ key_call' = [op |-> "rotate_to_next_key", key |-> "None", at |-> clock]
    /\ UNCHANGED <<pipelineVars, clock, endpoint>>

NextKeys == Tick \/ GetAvailableKey \/ MarkKeyFailed \/ RotateToNextKey

SpecKeys == InitKeys /\ [][NextKeys]_vars

(***************************************************************************)
(* discover_jobs_endpoint: one request, from the key lookup to the         *)
(* response.  Queries the model emits are JSON values; one that is a JSON  *)
(* object and not a string is kept as its text and listed in               *)
(* NonStringQueries.                                                       *)
(***************************************************************************)
JsonObjectQuery == "{query: backend engineer careers}"
NonStringQueries == {JsonObjectQuery}

\* DiscoverJobsResponse(...): search_queries_used is list[str], so every
\* element has to be a string
DiscoverJobsResponseValid(queries_used) ==
    \A k \in 1..Len(queries_used) : queries_used[k] \notin NonStringQueries

EndpointQueryResponses ==
    {Resp("transport_error", <<>>), Resp("list", <<"acme careers">>),
     Resp("list", <<JsonObjectQuery>>)}
EndpointFetchOutcomes ==
    {[kind |-> "exception", status |-> 0, len |-> 0],
     [kind |-> "response", status |-> 200, len |-> 20000]}
EndpointExtractResponses ==
    {Resp("http_error", <<>>), Resp("bad_json", <<>>), Resp("list", <<Element("J1", 5)>>)}

InitEndpoint ==
    /\ pc = "NotCalled"
    /\ request \in PipelineRequests
    /\ queries = <<>>
    /\ query_resp = "none"
    /\ qi = 1
    /\ discovered_urls = {}
    /\ urls = <<>>
    /\ semaphore = SEMAPHORE_SLOTS
    /\ tpc = <<>>
    /\ results = <<>>
    /\ model_output = <<>>
    /\ sources_crawled = 0
    /\ errors = <<>>
    /\ all_jobs = <<>>
    /\ ret = NoReturn
    /\ fetch_calls = 0
    /\ extract_calls = 0
    /\ filter_url = <<>>
    /\ filter_out = "unset"
    /\ fetched = <<>>
    /\ extraction = NoExtraction
    /\ extract_raised = <<>>
    /\ search = NoSearch
    /\ \E n \in {0, 1, 2} :
          key_manager = GroqAPIKeyManager(ApiKeys(n), COOLDOWN_MINUTES_DEFAULT)
    /\ clock = 0
    /\ key_call = NoKeyCall
    /\ endpoint = NoEndpoint

\* lines 44-52: the key lookup; without a key HTTPException(503) is raised,
\* with one discover_jobs is called
EndpointCall ==
    /\ endpoint.pc = "idle"
    /\ pc = "NotCalled"
    /\ LET r == get_available_key(key_manager, clock)
       IN  /\ key_manager' = r.manager
           /\ key_call' = [op |-> "get_available_key", key |-> r.key, at |-> clock]
           /\ IF r.key = "None"
              THEN /\ endpoint' = [pc |-> "raised", api_key |-> "None", status |-> 503]
                   /\ pc' = pc
              ELSE /\ endpoint' = [pc |-> "running", api_key |-> r.key, status |-> 0]
                   /\ pc' = "Idle"
    /\ UNCHANGED <<request, queries, query_resp, discoverVars, urls, crawlVars, errors, ret,
                   filterVars, extraction, clock>>

\* lines 52-68: discover_jobs returned; the response object is built, and an
\* exception on the way marks the key failed and raises HTTPException(500)
EndpointRespond ==
    /\ endpoint.pc = "running"
    /\ pc = "Done"
    /\ IF DiscoverJobsResponseValid(ret.queries)
       THEN /\ endpoint' = [endpoint EXCEPT !.pc = "responded", !.status = 200]
            /\ UNCHANGED <<key_manager, key_call>>
       ELSE /\ endpoint' = [endpoint EXCEPT !.pc = "raised", !.status = 500]
            /\ key_manager' = mark_key_failed(key_manager, endpoint.api_key, clock)
            /\ key_call' = [op |-> "mark_key_failed", key |-> endpoint.api_key, at |-> clock]
    /\ UNCHANGED <<pipelineVars, clock>>

NextEndpoint ==
    \/ EndpointCall
    \/ GenerateQueries(EndpointQueryResponses)
    \/ SearchQuery
    \/ DiscoverError
    \/ DiscoverReturn
    \/ ReturnNoUrls
    \/ StartCrawl
    \/ \E i \in Tasks : Acquire(i)
    \/ \E i \in Tasks : CrawlReturn(i, EndpointFetchOutcomes)
    \/ \E i \in Tasks : ExtractReturn(i, EndpointExtractResponses)
    \/ Aggregate
    \/ Return
    \/ EndpointRespond

SpecEndpoint == InitEndpoint /\ [][NextEndpoint]_vars

(***************************************************************************)
(* The crawl phase with more URLs than semaphore slots: discover_jobs from *)
(* the return of discover_career_pages on.                                 *)
(***************************************************************************)
GateUrl(i) == UrlAcmeCareers \o <<"/", ToString(i)>>
GateRequest ==
    [role |-> "Backend Engineer", skills |-> <<>>, location |-> "Remote",
     max_results |-> MAX_RESULTS_LE, custom_search_terms |-> <<>>]
GateFetchOutcomes ==
    {[kind |-> "exception", status |-> 0, len |-> 0],
     [kind |-> "response", status |-> 200, len |-> 20000]}
GateExtractResponses == {Resp("http_error", <<>>)}

InitGate ==
    /\ pc = "URLsDiscovered"
    /\ request = GateRequest
    /\ queries = FallbackQueries(request.role, request.skills, request.location,
                                 request.custom_search_terms)
    /\ query_resp = "http_error"
    /\ qi = Len(queries) + 1
    /\ \E n \in {MaxGateUrls - 1, MaxGateUrls} : urls = [i \in 1..n |-> GateUrl(i)]
    /\ discovered_urls = Range(urls)
    /\ semaphore = SEMAPHORE_SLOTS
    /\ tpc = <<>>
    /\ results = <<>>
    /\ model_output = <<>>
    /\ sources_crawled = 0
    /\ errors = <<>>
    /\ all_jobs = <<>>
    /\ ret = NoReturn
    /\ fetch_calls = 0
    /\ extract_calls = 0
    /\ filter_url = <<>>
    /\ filter_out = "unset"
    /\ fetched = <<>>
    /\ extraction = NoExtraction
    /\ extract_raised = <<>>
    /\ search = NoSearch
    /\ key_manager = GroqAPIKeyManager(<<>>, COOLDOWN_MINUTES_DEFAULT)
    /\ clock = 0
    /\ key_call = NoKeyCall
    /\ endpoint = NoEndpoint

NextGate ==
    \/ StartCrawl
    \/ \E i \in Tasks : Acquire(i)
    \/ \E i \in Tasks : CrawlReturn(i, GateFetchOutcomes)
    \/ \E i \in Tasks : ExtractReturn(i, GateExtractResponses)
    \/ Aggregate
    \/ Return

SpecGate == InitGate /\ [][NextGate]_vars

\* the crawl phase with one URL more than there are slots, every external
\* call eventually returning or failing
InitGateLive ==
    /\ InitGate
    /\ Len(urls) = SEMAPHORE_SLOTS + 1

SpecGateLive == InitGateLive /\ [][NextGate]_vars /\ WF_vars(NextGate)

(***************************************************************************)
(* Properties                                                              *)
(***************************************************************************)
SeqSet(s) == {s[k] : k \in 1..Len(s)}

\* C1: for every request and every combination of stage outcomes, the jobs
\* list discover_jobs returns has between 0 and request.max_results entries.
C1_JobsWithinMaxResults ==
    ret.returned => (0 <= Len(ret.jobs) /\ Len(ret.jobs) <= request.max_results)

\* C2: at every instant of the crawl phase at most 5 per-URL pipelines are
\* between acquiring and releasing the semaphore, and the semaphore's value
\* is the number of free slots.
C2_GateBound ==
    /\ Cardinality(InGate) <= 5
    /\ semaphore >= 0
    /\ pc = "Crawling" => semaphore + Cardinality(InGate) = 5

\* C2 witness: five pipelines hold the gate while another one waits for a slot.
C2_GateFullAndOneWaiting ==
    /\ pc = "Crawling"
    /\ Cardinality(InGate) = 5
    /\ \E i \in Tasks : tpc[i] = "waiting"

\* an element of the model's list whose confidence_score is outside [0.0, 1.0]
C3_ScoreOutOfRange(e) == e.is_dict /\ e.has_score /\ (e.score < 0 \/ e.score > 10)

\* C3: every returned job has a confidence_score in [0.0, 1.0] (0..10 tenths),
\* and no element the model emitted with a score outside that range is in
\* the result, under its own score or a clamped one.
C3_ConfidenceInRange ==
    ret.returned =>
        \A p \in 1..Len(ret.jobs) :
            /\ ret.jobs[p].confidence_score >= 0
            /\ ret.jobs[p].confidence_score <= 10
            /\ \A i \in Tasks : \A e \in SeqSet(model_output[i]) :
                  C3_ScoreOutOfRange(e) =>
                      ~(ret.jobs[p].source_url = urls[i] /\ ret.jobs[p].title = e.title)

\* C3 witness: the model emitted an element with a score above 1.0 for a page,
\* and the result holds another job of that page.
C3_OutOfRangeEmitted ==
    /\ ret.returned
    /\ \E i \in Tasks :
          /\ \E e \in SeqSet(model_output[i]) : C3_ScoreOutOfRange(e) /\ e.score > 10
          /\ \E p \in 1..Len(ret.jobs) : ret.jobs[p].source_url = urls[i]

\* the jobs the tasks returned, and their places in the concatenation
C4_Extracted == UNION {SeqSet(results[i].jobs) : i \in Tasks}
C4_TaskOf(job) == CHOOSE i \in Tasks : urls[i] = job.source_url
C4_PlaceOf(job) ==
    CHOOSE k \in 1..Len(results[C4_TaskOf(job)].jobs) : results[C4_TaskOf(job)].jobs[k] = job
\* a comes before b in the concatenation
C4_Before(a, b) ==
    \/ C4_TaskOf(a) < C4_TaskOf(b)
    \/ C4_TaskOf(a) = C4_TaskOf(b) /\ C4_PlaceOf(a) < C4_PlaceOf(b)
\* a is ranked before b by a stable descending sort
C4_Ranked(a, b) ==
    \/ a.confidence_score > b.confidence_score
    \/ a.confidence_score = b.confidence_score /\ C4_Before(a, b)

\* C4: the returned jobs are the per-URL lists, concatenated in task order,
\* stably sorted by confidence_score descending, then cut to max_results.
C4_SortedStableTruncated ==
    (ret.returned /\ urls # <<>>) =>
        LET out == ret.jobs
        IN  /\ Len(out) = Min(Cardinality(C4_Extracted), request.max_results)
            /\ SeqSet(out) \subseteq C4_Extracted
            /\ \A p, q \in 1..Len(out) : p < q => C4_Ranked(out[p], out[q])
            /\ \A p \in 1..(Len(out) - 1) :
                  out[p].confidence_score >= out[p + 1].confidence_score
            /\ \A x \in C4_Extracted \ SeqSet(out) :
                  \A p \in 1..Len(out) : C4_Ranked(out[p], x)

\* C4 witness: more jobs were extracted than max_results allows, and the
\* result holds two jobs of equal score from different URLs.
C4_TieAcrossUrlsAndCut ==
    /\ ret.returned
    /\ Cardinality(C4_Extracted) > request.max_results
    /\ \E p, q \in 1..Len(ret.jobs) :
          /\ p < q
          /\ ret.jobs[p].confidence_score = ret.jobs[q].confidence_score
          /\ ret.jobs[p].source_url # ret.jobs[q].source_url

\* the valid elements the model emitted, as (task, title) pairs
C5_ElementValid(e) ==
    e.is_dict /\ e.fields_ok /\ (e.has_score => (e.score >= 0 /\ e.score <= 10))
C5_Emitted ==
    UNION {{<<i, e.title>> : e \in {x \in SeqSet(model_output[i]) : C5_ElementValid(x)}} :
           i \in Tasks}

\* C5: when the fetch or the extraction of one URL fails, every task still
\* runs to completion and the valid jobs the model emitted for the other URLs
\* are all in the result, unless only the cut to max_results removes some.
C5_OtherUrlsStillMerged ==
    (ret.returned /\ urls # <<>>) =>
        /\ \A i \in Tasks : tpc[i] = "done"
        /\ Len(ret.jobs) = Min(Cardinality(C5_Emitted), request.max_results)
        /\ \A p \in 1..Len(ret.jobs) :
              \E i \in Tasks : urls[i] = ret.jobs[p].source_url
                               /\ <<i, ret.jobs[p].title>> \in C5_Emitted
        /\ Cardinality(C5_Emitted) <= request.max_results =>
              \A pair \in C5_Emitted :
                  \E p \in 1..Len(ret.jobs) :
                      /\ ret.jobs[p].source_url = urls[pair[1]]
                      /\ ret.jobs[p].title = pair[2]

\* C5 witness: the fetch of one URL failed, and a job of a URL behind it in
\* task order is in the result.
C5_FailedUrlBesideJobs ==
    /\ ret.returned
    /\ \E i, j \in Tasks :
          /\ i < j
          /\ <<"Failed to crawl: ", urls[i]>> \in SeqSet(ret.errors)
          /\ \E p \in 1..Len(ret.jobs) : ret.jobs[p].source_url = urls[j]

\* C6: when the Page Discoverer returns no URLs, discover_jobs returns at
\* once with no jobs, the synthesized queries as they were, sources_crawled
\* = 0 and a non-empty errors list; no fetch and no extraction request was made.
C6_EmptyDiscovery ==
    /\ (pc = "URLsDiscovered" /\ urls = <<>>) =>
          (fetch_calls = 0 /\ extract_calls = 0 /\ ~ENABLED StartCrawl)
    /\ (pc = "Done" /\ urls = <<>>) =>
          /\ ret.returned
          /\ ret.jobs = <<>>
          /\ ret.queries = queries
          /\ ret.sources_crawled = 0
          /\ ret.errors # <<>>
          /\ fetch_calls = 0
          /\ extract_calls = 0
          /\ tpc = <<>>

\* C6 witness: searches were made, none of them brought an accepted URL, and
\* discover_jobs has returned.
C6_SearchedAndFoundNothing ==
    /\ pc = "Done"
    /\ urls = <<>>
    /\ queries # <<>>
    /\ qi > 1
    /\ request.max_results > 0

\* C7: for every non-empty role generate_search_queries never returns an
\* empty query list.
C7_NeverEmptyForRole ==
    (pc = "QueriesGenerated" /\ request.role # "") => queries # <<>>

\* C8: on every path and for every custom_terms list generate_search_queries
\* returns at most 10 queries.
C8_AtMostTenQueries ==
    pc = "QueriesGenerated" => Len(queries) <= 10

\* C9: when the model call fails, generate_search_queries returns, in order,
\* "<role> careers <location>", "<role> jobs company hiring", the two
\* site-restricted queries, one skill query iff skills is non-empty, then
\* custom_terms verbatim; for role "Backend Engineer" and location "Remote"
\* the list holds "Backend Engineer careers Remote".
C9_FallbackInOrder ==
    (pc = "QueriesGenerated" /\ query_resp \in FailureKinds) =>
        LET n == IF request.skills # <<>> THEN 5 ELSE 4
            terms == request.custom_search_terms
        IN  /\ Len(queries) = n + Len(terms)
            /\ queries[1] = request.role \o " careers " \o request.location
            /\ queries[2] = request.role \o " jobs company hiring"
            /\ queries[3] = "site:greenhouse.io " \o request.role
            /\ queries[4] = "site:lever.co " \o request.role
            /\ request.skills # <<>> =>
                  queries[5] = request.skills[1] \o " developer jobs " \o request.location
            /\ \A k \in 1..Len(terms) : queries[n + k] = terms[k]
            /\ (request.role = "Backend Engineer" /\ request.location = "Remote") =>
                  "Backend Engineer careers Remote" \in SeqSet(queries)

\* C9 witness: the request to the model raised, for a request with skills and
\* custom terms.
C9_ModelCallFailed ==
    /\ pc = "QueriesGenerated"
    /\ query_resp = "transport_error"
    /\ request.role = "Backend Engineer"
    /\ request.skills # <<>>
    /\ Len(request.custom_search_terms) >= 2

\* the three tiers, applied to a URL and the text taken as its host
C10_Hostname(url) ==
    LET netloc == Netloc(url)
        ats == {k \in 1..Len(netloc) : netloc[k] = "@"}
        from == IF ats = {} THEN 1 ELSE 1 + CHOOSE k \in ats : \A m \in ats : m <= k
    IN  SubSeq(netloc, from, Len(netloc))
C10_Denied(host) == \E e \in 1..Len(EXCLUDED_DOMAINS) : Contains(EXCLUDED_DOMAINS[e], Lower(host))
C10_Pattern(url) ==
    \E p \in 1..Len(CAREER_PAGE_PATTERNS) : RegexSearch(CAREER_PAGE_PATTERNS[p], Lower(url))
C10_Keyword(url) ==
    \E k \in 1..Len(CAREER_KEYWORDS) : Contains(CAREER_KEYWORDS[k], Lower(url))
C10_Tiers(url, host) ==
    IF C10_Denied(host) THEN "False"
    ELSE IF C10_Pattern(url) THEN "True"
    ELSE IF C10_Keyword(url) THEN "True"
    ELSE "False"

\* C10 (as claimed): for every URL the tiers are applied in order: false when
\* the host contains a denylisted domain, else true on a career pattern, else
\* true on a keyword, else false.
C10_TiersForEveryUrl ==
    filter_out # "unset" => filter_out = C10_Tiers(filter_url, C10_Hostname(filter_url))

\* C10 (amended): for every URL urlparse accepts, the tiers are applied in
\* order to the netloc (userinfo and port included): false when the netloc
\* contains a denylisted domain, else true on a career pattern, else true on
\* a keyword, else false; a URL on which urlparse raises is classified false.
C10_TiersOnParsedNetloc ==
    filter_out # "unset" =>
        /\ UrlparseRaises(filter_url) => filter_out = "False"
        /\ ~UrlparseRaises(filter_url) =>
              filter_out = C10_Tiers(filter_url, Netloc(filter_url))
        /\ filter_url = UrlLinkedin => filter_out = "False"
        /\ filter_url = UrlGreenhouse => filter_out = "True"
        /\ filter_url = UrlAbout => filter_out = "False"

\* C10 witness: a URL whose netloc is denylisted is rejected although it
\* matches a career pattern.
C10_DeniedDespitePattern ==
    /\ filter_out = "False"
    /\ ~UrlparseRaises(filter_url)
    /\ C10_Denied(Netloc(filter_url))
    /\ C10_Pattern(filter_url)

\* a URL that is not a well-formed URL with a host: urlparse raises on it, or
\* it has no host
C11_Malformed(url) == UrlparseRaises(url) \/ C10_Hostname(url) = <<>>

\* C11: is_valid_career_url returns for every input string, and every
\* malformed URL is classified false, even when its text contains a career
\* keyword or pattern.
C11_MalformedIsFalse ==
    /\ filter_out \in {"unset", "True", "False"}
    /\ (filter_out # "unset" /\ C11_Malformed(filter_url)) => filter_out = "False"

\* C12: discover_career_pages returns pairwise distinct URLs, each accepted by
\* the URL filter, at most max_results of them; once the accumulated set has
\* max_results members no further search is issued.
C12_DistinctAcceptedBounded ==
    /\ pc \notin {"Idle", "QueriesGenerated"} =>
          /\ \A i, j \in 1..Len(urls) : i # j => urls[i] # urls[j]
          /\ \A i \in 1..Len(urls) : is_valid_career_url(urls[i])
          /\ Len(urls) <= request.max_results
    /\ (pc = "QueriesGenerated" /\ Cardinality(discovered_urls) >= request.max_results) =>
          ~ENABLED SearchQuery

\* C13: extract_jobs_from_content returns an empty list and issues no model
\* request whenever the page text is absent or shorter than 100 characters.
C13_ShortCircuit ==
    LET short == ~extraction.content.present \/ extraction.content.len < 100
    IN  /\ (extraction.pc = "returned" /\ short) =>
              (extraction.jobs = <<>> /\ extraction.requests = 0)
        /\ extraction.pc = "requested" => ~short

\* C13 witness: the call returned for a page text of 99 characters.
C13_NinetyNineCharacters ==
    /\ extraction.pc = "returned"
    /\ extraction.content.present
    /\ extraction.content.len = 99
    /\ extraction.requests = 0

\* the element of the model's list a returned job was built from
C14_ElementOf(job) == CHOOSE e \in SeqSet(extraction.resp.payload) : e.title = job.title

\* C14: every job extract_jobs_from_content produces has source_url equal to
\* the crawled URL passed in, whatever source_url the model emitted, and
\* apply_url equal to the crawled URL when the element has no or an empty
\* apply_url.
C14_UrlsForced ==
    extraction.pc = "returned" =>
        \A k \in 1..Len(extraction.jobs) :
            LET job == extraction.jobs[k]
            IN  /\ job.source_url = extraction.source_url
                /\ C14_ElementOf(job).apply_url = <<>> =>
                      job.apply_url = extraction.source_url

\* C14 witness: one returned job comes from an element that named another
\* source_url, and one from an element without an apply_url.
C14_ModelNamedAnotherSource ==
    /\ extraction.pc = "returned"
    /\ \E k \in 1..Len(extraction.jobs) :
          /\ C14_ElementOf(extraction.jobs[k]).source_url # <<>>
          /\ C14_ElementOf(extraction.jobs[k]).source_url # extraction.source_url
    /\ \E k \in 1..Len(extraction.jobs) : C14_ElementOf(extraction.jobs[k]).apply_url = <<>>

\* C15: extract_jobs_from_content never raises: a non-2xx model response, a
\* top-level non-list result, a JSON parse failure or a transport exception
\* each end in the return of an empty list.
C15_FailuresYieldEmpty ==
    /\ extraction.pc \in {"unset", "requested", "returned"}
    /\ (extraction.pc = "returned" /\ extraction.resp.kind \in FailureKinds) =>
          extraction.jobs = <<>>

\* C15 witness: the model answered with a top-level value that is not a list
\* but wraps one, and the call returned.
C15_NonListReturned ==
    /\ extraction.pc = "returned"
    /\ extraction.requests = 1
    /\ extraction.resp.kind = "non_list"
    /\ extraction.resp.payload # <<>>

\* the titles of the elements that pass field validation, in their order
RECURSIVE C16_ValidTitles(_)
C16_ValidTitles(payload) ==
    IF payload = <<>> THEN <<>>
    ELSE (IF C5_ElementValid(Head(payload)) THEN <<Head(payload).title>> ELSE <<>>)
         \o C16_ValidTitles(Tail(payload))
C16_JobTitles == [k \in 1..Len(extraction.jobs) |-> extraction.jobs[k].title]

\* C16: when some elements of the model's list fail field validation,
\* extract_jobs_from_content drops exactly those and returns all the valid
\* elements in their original relative order.
C16_InvalidDroppedOthersKept ==
    (extraction.pc = "returned" /\ extraction.resp.kind = "list") =>
        C16_JobTitles = C16_ValidTitles(extraction.resp.payload)

\* C16 witness: an invalid element stands between two valid ones, and both
\* valid ones were returned.
C16_InvalidBetweenValid ==
    /\ extraction.pc = "returned"
    /\ extraction.resp.kind = "list"
    /\ \E a, b, c \in 1..Len(extraction.resp.payload) :
          /\ a < b /\ b < c
          /\ C5_ElementValid(extraction.resp.payload[a])
          /\ ~C5_ElementValid(extraction.resp.payload[b])
          /\ C5_ElementValid(extraction.resp.payload[c])
    /\ Len(extraction.jobs) >= 2

\* C17: every job in the result retains at most 5 requirements entries, even
\* when the model emits a longer requirements list for an element.
C17_AtMostFiveRequirements ==
    extraction.pc = "returned" =>
        \A k \in 1..Len(extraction.jobs) : Len(extraction.jobs[k].requirements) <= 5

\* C18: a request is accepted only if max_results is in 1..20; with
\* max_results below 1 or above 20 the pipeline never runs.
C18_MaxResultsInRange ==
    pc # "Idle" => (request.max_results >= 1 /\ request.max_results <= 20)

\* the tasks whose fetch brought page text
C19_FetchedContent == {i \in Tasks : fetched[i] = "content"}

\* C19: sources_crawled is the number of discovered URLs whose fetch returned
\* content, whether or not a job was extracted from it and whatever the order
\* in which the tasks ran; hence sources_crawled <= number of discovered URLs.
C19_SourcesCrawledCountsFetches ==
    /\ Tasks # {} => sources_crawled = Cardinality(C19_FetchedContent)
    /\ ret.returned =>
          /\ ret.sources_crawled <= Len(urls)
          /\ urls # <<>> => ret.sources_crawled = Cardinality(C19_FetchedContent)

\* C19 witness: one fetch brought content from which no job was extracted,
\* another fetch failed, and discover_jobs has returned.
C19_ContentWithoutJobs ==
    /\ ret.returned
    /\ ret.sources_crawled >= 1
    /\ \E i, j \in Tasks :
          /\ fetched[i] = "content"
          /\ results[i].jobs = <<>>
          /\ fetched[j] = "no_content"

\* the errors entries that name url
C20_EntriesFor(url) ==
    {k \in 1..Len(ret.errors) : Len(ret.errors[k]) = 2 /\ ret.errors[k][2] = url}

\* C20: for every discovered URL whose fetch fails (status other than 200,
\* transport exception, or no content) the errors list holds exactly one
\* entry naming it, the URL contributes no job, and every other task still
\* runs to completion.
C20_FailedFetchRecordedOnce ==
    (ret.returned /\ urls # <<>>) =>
        \A i \in Tasks :
            fetched[i] = "no_content" =>
                /\ Cardinality(C20_EntriesFor(urls[i])) = 1
                /\ \A k \in C20_EntriesFor(urls[i]) : ret.errors[k][1] = "Failed to crawl: "
                /\ \A p \in 1..Len(ret.jobs) : ret.jobs[p].source_url # urls[i]
                /\ \A j \in Tasks : tpc[j] = "done" /\ fetched[j] # "pending"

\* C20 witness: the fetches of two URLs failed, and a job of a third URL is
\* in the result.
C20_TwoFailedOneExtracted ==
    /\ ret.returned
    /\ \E i, j, k \in Tasks :
          /\ i # j
          /\ fetched[i] = "no_content"
          /\ fetched[j] = "no_content"
          /\ fetched[k] = "content"
          /\ \E p \in 1..Len(ret.jobs) : ret.jobs[p].source_url = urls[k]

\* C21: for every discovered URL whose extraction step fails with an
\* exception after a successful fetch, the result's errors list holds exactly
\* one entry that identifies that URL.
C21_ExtractionFailureRecorded ==
    (ret.returned /\ urls # <<>>) =>
        \A i \in Tasks :
            (fetched[i] = "content" /\ extract_raised[i]) =>
                Cardinality(C20_EntriesFor(urls[i])) = 1

\* the URLs of a list of hrefs that the filter accepts
C23_Accepted(hrefs) == {u \in SeqSet(hrefs) : u # <<>> /\ is_valid_career_url(u)}

\* C23: a failing search query is swallowed: the URLs accepted before, and
\* those of the failing query's results consumed before the failure, stay in
\* the set, the loop goes on to the next query, and discover_career_pages
\* does not return after a failure while queries are left and the set is
\* not full.
C23_FailedSearchSwallowed ==
    [][/\ (pc = "QueriesGenerated" /\ qi' = qi + 1 /\ search'.raised) =>
              /\ pc' = "QueriesGenerated"
              /\ discovered_urls \subseteq discovered_urls'
              /\ C23_Accepted(search'.hrefs) \subseteq discovered_urls'
       /\ (pc = "QueriesGenerated" /\ search.raised /\ pc' # pc) =>
              (qi > Len(queries) \/ Cardinality(discovered_urls) >= request.max_results)
      ]_vars

\* C23 witness: a search failed after one of its results was accepted, the
\* set also holds a URL of an earlier query, and queries are left.
C23_FailedAfterPartialResults ==
    /\ pc = "QueriesGenerated"
    /\ search.raised
    /\ C23_Accepted(search.hrefs) # {}
    /\ discovered_urls \ C23_Accepted(search.hrefs) # {}
    /\ qi <= Len(queries)

\* C24: between any two consecutive search requests of discover_career_pages
\* the inter-query delay elapses, whether the earlier query succeeded or
\* failed.
C24_DelayBetweenSearches ==
    [][(pc = "QueriesGenerated" /\ qi' = qi + 1 /\ search.ran) => search.slept]_vars

\* C25 (as claimed): during the Crawling phase no per-URL pipeline writes the
\* errors list, the sources_crawled counter or the merged jobs list.
C25_NoSharedWrites ==
    [][(pc = "Crawling" /\ pc' = "Crawling") =>
          (errors' = errors /\ sources_crawled' = sources_crawled /\ all_jobs' = all_jobs)
      ]_vars

\* C25 (amended): during the Crawling phase a per-URL pipeline writes only
\* its own result, appends at most one entry to the errors list and adds at
\* most one to sources_crawled in a step; the merged jobs list is written
\* only by the merge step, after every task has joined.
C25_OnlyJobsMergedAfterJoin ==
    [][pc = "Crawling" =>
          /\ all_jobs' # all_jobs => (pc' = "Aggregated" /\ \A i \in Tasks : tpc[i] = "done")
          /\ pc' = "Crawling" =>
                /\ Len(errors') \in {Len(errors), Len(errors) + 1}
                /\ SubSeq(errors', 1, Len(errors)) = errors
                /\ sources_crawled' \in {sources_crawled, sources_crawled + 1}
                /\ \A i, j \in Tasks :
                      (results'[i] # results[i] /\ results'[j] # results[j]) => i = j
                /\ \A i \in Tasks :
                      results'[i] # results[i] => (tpc[i] # "done" /\ tpc'[i] = "done")
      ]_vars

\* C25 witness: while a task is still running, the errors list and the
\* counter were already written and the merged jobs list is still empty.
C25_SharedWrittenBeforeJoin ==
    /\ pc = "Crawling"
    /\ errors # <<>>
    /\ sources_crawled > 0
    /\ all_jobs = <<>>
    /\ \E i, j \in Tasks : tpc[i] # "done" /\ results[j].jobs # <<>>

\* the phase changes of discover_jobs
C26_PhaseSteps ==
    {<<"Idle", "QueriesGenerated">>, <<"QueriesGenerated", "URLsDiscovered">>,
     <<"URLsDiscovered", "Crawling">>, <<"URLsDiscovered", "Done">>,
     <<"Crawling", "Aggregated">>, <<"Aggregated", "Done">>}

\* C26: discover_jobs goes through Idle, QueriesGenerated, URLsDiscovered,
\* Crawling, Aggregated, Done in this order: searches are issued only after
\* query synthesis returned, fetches only after discovery returned, sorting
\* and truncation only after every task completed; the only shortcut is from
\* URLsDiscovered to Done when no URL was discovered.
C26_PhasesInOrder ==
    [][/\ pc' # pc => <<pc, pc'>> \in C26_PhaseSteps
       /\ qi' # qi => (pc = "QueriesGenerated" \/ pc' = "QueriesGenerated")
       /\ qi' > qi => pc = "QueriesGenerated"
       /\ fetch_calls' # fetch_calls => pc = "Crawling"
       /\ extract_calls' # extract_calls => pc = "Crawling"
       /\ all_jobs' # all_jobs => (pc = "Crawling" /\ pc' = "Aggregated")
       /\ pc' = "Aggregated" => \A i \in Tasks : tpc[i] = "done"
       /\ (pc = "URLsDiscovered" /\ pc' = "Done") => urls = <<>>
       /\ (pc = "URLsDiscovered" /\ pc' = "Crawling") => urls # <<>>
      ]_vars

\* C26 witness: a run that searched, crawled two pages, merged jobs and
\* returned.
C26_FullRunDone ==
    /\ pc = "Done"
    /\ qi > 1
    /\ Len(urls) >= 2
    /\ fetch_calls = Len(urls)
    /\ ret.jobs # <<>>

\* C27: when every external call eventually returns or fails, discover_jobs
\* eventually reaches Done with every URL fetched exactly once, every task
\* completed and all 5 slots of the gate free; a slot never stays taken by a
\* task that has left the gate.
C27_EventuallyDoneAllSlotsFree ==
    /\ <>(/\ pc = "Done"
          /\ fetch_calls = Len(urls)
          /\ \A i \in Tasks : tpc[i] = "done"
          /\ semaphore = 5)
    /\ [](pc \in {"Crawling", "Aggregated", "Done"} => semaphore + Cardinality(InGate) = 5)
    /\ \A i \in 1..(SEMAPHORE_SLOTS + 1) :
          (pc = "Crawling" /\ i \in Tasks /\ tpc[i] = "waiting")
              ~> (i \in Tasks /\ tpc[i] # "waiting")

\* C27 witness: six URLs went through the five slots, some leaving the gate
\* after a failed fetch and some after an extraction, and discover_jobs
\* returned.
C27_SixUrlsThroughFiveSlots ==
    /\ pc = "Done"
    /\ Len(urls) = 6
    /\ semaphore = 5
    /\ fetch_calls = 6
    /\ \E i, j \in Tasks : fetched[i] = "no_content" /\ fetched[j] = "content"

\* C30: every job of the final result has a source_url that is one of the
\* URLs the Page Discoverer returned for this request; so it was accepted by
\* the URL filter and its host contains no denylisted aggregator domain,
\* whatever the model wrote.
C30_SourceUrlsAreDiscovered ==
    ret.returned =>
        \A p \in 1..Len(ret.jobs) :
            /\ ret.jobs[p].source_url \in SeqSet(urls)
            /\ ret.jobs[p].source_url \in discovered_urls
            /\ is_valid_career_url(ret.jobs[p].source_url)
            /\ ~C10_Denied(C10_Hostname(ret.jobs[p].source_url))

\* C30 witness: the result holds a job for which the model named a
\* denylisted aggregator URL as its source.
C30_ModelNamedAggregator ==
    /\ ret.returned
    /\ \E p \in 1..Len(ret.jobs), i \in Tasks :
          /\ urls[i] = ret.jobs[p].source_url
          /\ \E e \in SeqSet(model_output[i]) :
                /\ e.title = ret.jobs[p].title
                /\ e.source_url # <<>>
                /\ C10_Denied(C10_Hostname(e.source_url))

\* the configured keys, and those in cooldown at the time of the latest call
C28_Configured == SeqSet(key_manager.api_keys)
C28_InCooldown(k) ==
    /\ k \in DOMAIN key_manager.failed_keys
    /\ key_call.at - key_manager.failed_keys[k] < key_manager.cooldown_minutes

\* C28: on a manager with at least one key, after any sequence of calls,
\* get_available_key returns a configured key, one that is not in cooldown
\* whenever some configured key is not in cooldown; it returns None only
\* when no keys are configured; current_key_index stays in
\* 0..len(api_keys)-1.
C28_AvailableKeyReturned ==
    /\ key_manager.api_keys # <<>> =>
          /\ key_manager.current_key_index >= 0
          /\ key_manager.current_key_index <= Len(key_manager.api_keys) - 1
    /\ key_call.op = "get_available_key" =>
          /\ key_call.key = "None" <=> key_manager.api_keys = <<>>
          /\ key_manager.api_keys # <<>> => key_call.key \in C28_Configured
          /\ (\E k \in C28_Configured : ~C28_InCooldown(k)) => ~C28_InCooldown(key_call.key)

\* C28 witness: the current key and another one are in cooldown, a third is
\* not, and get_available_key returned the third.
C28_SkippedTwoCoolingKeys ==
    /\ key_call.op = "get_available_key"
    /\ Cardinality({k \in C28_Configured : C28_InCooldown(k)}) = 2
    /\ ~C28_InCooldown(key_call.key)
    /\ key_call.key \in C28_Configured
    /\ key_manager.current_key_index = 2

\* C29: when every configured key is in cooldown, get_available_key returns
\* the key whose failure timestamp is the oldest, whatever calls of
\* mark_key_failed came before.
C29_LeastRecentlyFailed ==
    (/\ key_call.op = "get_available_key"
     /\ key_manager.api_keys # <<>>
     /\ \A k \in C28_Configured : C28_InCooldown(k)) =>
        \A k \in C28_Configured :
            key_manager.failed_keys[key_call.key] <= key_manager.failed_keys[k]

\* C22: the caller always receives a result object, for every combination of
\* query-stage, search-stage, fetch and extraction failures; the only
\* outright failure is that no API key is available, and it is raised
\* before any pipeline stage runs.
C22_OnlyMissingKeyFails ==
    /\ endpoint.pc = "raised" =>
          (endpoint.status = 503 /\ endpoint.api_key = "None" /\ pc = "NotCalled")
    /\ pc # "NotCalled" => endpoint.pc \in {"running", "responded"}

====
